---- MODULE Spec2Model ----
(***************************************************************************)
(* Model of tamr_client/attributes/attribute.py: the Attribute value, its  *)
(* JSON codec (_from_json / to_json) and the CRUD operations               *)
(* (from_resource_id, from_dataset_all, create, update, delete) run        *)
(* against a Tamr server reached through a Session.                        *)
(*                                                                         *)
(* Encoding of Python values:                                              *)
(*   Optional[str]   None is <<>>, the string s is <<s>>                   *)
(*   dict (JSON)     a function from its keys, so `k in d` is              *)
(*                   k \in DOMAIN d; a JSON null value is <<>>             *)
(*   tuple / list    a sequence                                            *)
(*   URL             a record with an origin and a path                    *)
(***************************************************************************)
EXTENDS Integers, Sequences, FiniteSets, TLC

VARIABLES
  store,    \* server: the attribute resources, in creation order
  handle,   \* the Attribute value the caller holds (<<>> when none)
  res,      \* the last operation: its name, arguments and outcome
  prev,     \* the operation before it (same shape as res)
  reqs,     \* the HTTP requests the last operation issued, in order
  cval      \* codec pipeline: the drawn input followed by its conversions

vars == <<store, handle, res, prev, reqs, cval>>

-----------------------------------------------------------------------------
(* Bounds and input sets *)

MaxTypeDepth == 1

None == <<>>

Some(s) == <<s>>

_RESERVED_NAMES ==
  { "origin_source_name", "tamr_id", "origin_entity_id", "clusterId",
    "originSourceId", "originEntityId", "sourceId", "entityId",
    "suggestedClusterId", "verificationType", "verifiedClusterId" }

UserNames == {"a", "b"}

Ids == UserNames \cup {"foo"}

Descriptions == {None, Some(""), Some("d")}

Origin == "http://localhost/v1"

MkURL(p) == [origin |-> Origin, path |-> p]

Datasets == { [url |-> MkURL("/datasets/7")] }

-----------------------------------------------------------------------------
(* tamr_client.url.URL, tamr_client.attributes.attribute_type,             *)
(* tamr_client.attributes.type_alias, tamr_client.response                 *)

\* dataclasses.replace(url, path=p)
replace(url, p) == [url EXCEPT !.path = p]

\* str(url)
Str(url) == url.origin \o url.path

PrimitiveTypes == { [tag |-> "STRING"], [tag |-> "INT"] }

Array(t) == [tag |-> "ARRAY", inner_type |-> t]

Map(t) == [tag |-> "MAP", inner_type |-> t]

RECURSIVE TypesOfDepth(_)
TypesOfDepth(d) ==
  IF d = 0 THEN PrimitiveTypes
  ELSE LET inner == TypesOfDepth(d - 1)
       IN  inner \cup {Array(t) : t \in inner} \cup {Map(t) : t \in inner}

AttributeTypes == TypesOfDepth(MaxTypeDepth)

\* type_alias.DEFAULT
DEFAULT == Array([tag |-> "STRING"])

RECURSIVE attribute_type_to_json(_)
attribute_type_to_json(t) ==
  IF "inner_type" \in DOMAIN t
  THEN [baseType |-> t.tag, innerType |-> attribute_type_to_json(t.inner_type)]
  ELSE [baseType |-> t.tag]

RECURSIVE attribute_type_from_json(_)
attribute_type_from_json(j) ==
  IF "innerType" \in DOMAIN j
  THEN [tag |-> j.baseType, inner_type |-> attribute_type_from_json(j.innerType)]
  ELSE [tag |-> j.baseType]

\* response.successful(r): r unless the status is outside 2xx
successful(r) == r.status_code >= 200 /\ r.status_code < 300

-----------------------------------------------------------------------------
(* Outcomes of an operation *)

Return(v) == [kind |-> "return", exc |-> "", arg |-> "", value |-> v]

Raise(e, a) == [kind |-> "raise", exc |-> e, arg |-> a, value |-> <<>>]

HTTPError(r) == Raise("HTTPError", "")

-----------------------------------------------------------------------------
(* The server behind the Session.  A resource is [coll, json]: the string  *)
(* of its collection URL and its JSON body; its own URL is                 *)
(* coll + "/" + json.name.                                                 *)

ItemUrl(e) == e.coll \o "/" \o e.json.name

Collections == { Str(d.url) \o "/attributes" : d \in Datasets }

Find(st, u) == { i \in 1..Len(st) : ItemUrl(st[i]) = u }

RECURSIVE Filter(_, _)
Filter(st, c) ==
  IF st = <<>> THEN <<>>
  ELSE IF Head(st).coll = c THEN <<Head(st).json>> \o Filter(Tail(st), c)
       ELSE Filter(Tail(st), c)

Remove(st, i) == SubSeq(st, 1, i - 1) \o SubSeq(st, i + 1, Len(st))

Response(code, body) == [status_code |-> code, json |-> body]

NoBody == <<>>

\* GET u
session_get(st, fault, u) ==
  IF fault THEN [r |-> Response(500, NoBody), store |-> st]
  ELSE IF Find(st, u) # {}
       THEN [r |-> Response(200, st[CHOOSE i \in Find(st, u) : TRUE].json), store |-> st]
       ELSE IF u \in Collections
            THEN [r |-> Response(200, Filter(st, u)), store |-> st]
            ELSE [r |-> Response(404, NoBody), store |-> st]

\* POST u with a JSON body: creates the resource u/body.name
session_post(st, fault, u, body) ==
  IF fault THEN [r |-> Response(500, NoBody), store |-> st]
  ELSE IF u \notin Collections THEN [r |-> Response(404, NoBody), store |-> st]
  ELSE IF Find(st, u \o "/" \o body.name) # {}
       THEN [r |-> Response(409, NoBody), store |-> st]
       ELSE [r |-> Response(201, body),
             store |-> Append(st, [coll |-> u, json |-> body])]

\* the stored body with its description replaced; a null description is
\* stored as an omitted key (the wire format has no null)
WithDescription(j, d) ==
  IF d = None
  THEN [name |-> j.name, type |-> j.type, isNullable |-> j.isNullable]
  ELSE [name |-> j.name, type |-> j.type, isNullable |-> j.isNullable,
        description |-> d]

\* PUT u with a JSON body {"description": ...}
session_put(st, fault, u, body) ==
  IF fault THEN [r |-> Response(500, NoBody), store |-> st]
  ELSE IF Find(st, u) = {} THEN [r |-> Response(404, NoBody), store |-> st]
  ELSE LET i == CHOOSE k \in Find(st, u) : TRUE
           j == WithDescription(st[i].json, body.description)
       IN  [r |-> Response(200, j),
            store |-> [st EXCEPT ![i] = [@ EXCEPT !.json = j]]]

\* DELETE u
session_delete(st, fault, u) ==
  IF fault THEN [r |-> Response(500, NoBody), store |-> st]
  ELSE IF Find(st, u) = {} THEN [r |-> Response(404, NoBody), store |-> st]
  ELSE [r |-> Response(204, NoBody),
        store |-> Remove(st, CHOOSE k \in Find(st, u) : TRUE)]

\* one HTTP exchange: the request sent and the response received
Request(verb, u, body, r) == [verb |-> verb, url |-> u, json |-> body, response |-> r]

-----------------------------------------------------------------------------
(* attribute.py *)

\* class Attribute (frozen dataclass)
Attribute(url, name, type, is_nullable, json, description) ==
  [url |-> url, name |-> name, type |-> type, is_nullable |-> is_nullable,
   _json |-> json, description |-> description]

\* Attribute.__eq__: _json is declared with compare=False
AttributeEq(a, b) ==
  /\ a.url = b.url
  /\ a.name = b.name
  /\ a.type = b.type
  /\ a.is_nullable = b.is_nullable
  /\ a.description = b.description

\* dict.get("description")
get_description(cp) ==
  IF "description" \in DOMAIN cp THEN cp.description ELSE None

_from_json(url, data) ==
  LET cp == data
  IN  Attribute(url, cp.name, attribute_type_from_json(cp.type),
                cp.isNullable, cp, get_description(cp))

\* to_json testing the description for truth instead of `is not None`
to_json_truthy(attr) ==
  IF attr.description # None /\ attr.description # Some("")
  THEN [name |-> attr.name,
        type |-> attribute_type_to_json(attr.type),
        isNullable |-> attr.is_nullable,
        description |-> attr.description]
  ELSE [name |-> attr.name,
        type |-> attribute_type_to_json(attr.type),
        isNullable |-> attr.is_nullable]

\* to_json writing the description key unconditionally
to_json_always(attr) ==
  [name |-> attr.name,
   type |-> attribute_type_to_json(attr.type),
   isNullable |-> attr.is_nullable,
   description |-> attr.description]

to_json(attr) ==
  IF attr.description # None
  THEN [name |-> attr.name,
        type |-> attribute_type_to_json(attr.type),
        isNullable |-> attr.is_nullable,
        description |-> attr.description]
  ELSE [name |-> attr.name,
        type |-> attribute_type_to_json(attr.type),
        isNullable |-> attr.is_nullable]

\* an operation's result: its outcome, the requests it issued, the server after it
Done(out, rq, st) == [out |-> out, reqs |-> rq, store |-> st]

\* _from_url without the 404 branch
_from_url_no_404(st, fault, url) ==
  LET s == session_get(st, fault, Str(url))
      rq == <<Request("GET", Str(url), NoBody, s.r)>>
  IN  IF ~successful(s.r)
      THEN Done(HTTPError(s.r), rq, s.store)
      ELSE Done(Return(<<_from_json(url, s.r.json)>>), rq, s.store)

\* _from_url repeating the GET once after a 5xx answer
_from_url_retry(st, fault, url) ==
  LET s1 == session_get(st, fault, Str(url))
      again == s1.r.status_code >= 500
      s == IF again THEN session_get(s1.store, FALSE, Str(url)) ELSE s1
      rq == IF again
            THEN <<Request("GET", Str(url), NoBody, s1.r),
                   Request("GET", Str(url), NoBody, s.r)>>
            ELSE <<Request("GET", Str(url), NoBody, s.r)>>
  IN  IF s.r.status_code = 404
      THEN Done(Raise("AttributeNotFound", Str(url)), rq, s.store)
      ELSE IF ~successful(s.r)
           THEN Done(HTTPError(s.r), rq, s.store)
           ELSE Done(Return(<<_from_json(url, s.r.json)>>), rq, s.store)

_from_url(st, fault, url) ==
  LET s == session_get(st, fault, Str(url))
      rq == <<Request("GET", Str(url), NoBody, s.r)>>
  IN  IF s.r.status_code = 404
      THEN Done(Raise("AttributeNotFound", Str(url)), rq, s.store)
      ELSE IF ~successful(s.r)
           THEN Done(HTTPError(s.r), rq, s.store)
           ELSE Done(Return(<<_from_json(url, s.r.json)>>), rq, s.store)

from_resource_id(st, fault, dataset, id) ==
  LET url == replace(dataset.url, dataset.url.path \o "/attributes/" \o id)
  IN  _from_url(st, fault, url)

\* from_dataset_all building the result back to front
from_dataset_all_reversed(st, fault, dataset) ==
  LET attrs_url == replace(dataset.url, dataset.url.path \o "/attributes")
      s == session_get(st, fault, Str(attrs_url))
      rq == <<Request("GET", Str(attrs_url), NoBody, s.r)>>
      attrs_json == s.r.json
      n == Len(attrs_json)
  IN  IF ~successful(s.r)
      THEN Done(HTTPError(s.r), rq, s.store)
      ELSE Done(Return([i \in 1..n |->
                          _from_json(replace(attrs_url,
                                             attrs_url.path \o "/" \o attrs_json[n + 1 - i].name),
                                     attrs_json[n + 1 - i])]),
                rq, s.store)

from_dataset_all(st, fault, dataset) ==
  LET attrs_url == replace(dataset.url, dataset.url.path \o "/attributes")
      s == session_get(st, fault, Str(attrs_url))
      rq == <<Request("GET", Str(attrs_url), NoBody, s.r)>>
      attrs_json == s.r.json
  IN  IF ~successful(s.r)
      THEN Done(HTTPError(s.r), rq, s.store)
      ELSE Done(Return([i \in 1..Len(attrs_json) |->
                          _from_json(replace(attrs_url,
                                             attrs_url.path \o "/" \o attrs_json[i].name),
                                     attrs_json[i])]),
                rq, s.store)

\* the request body _create builds
CreateBody(name, is_nullable, type, description) ==
  IF description # None
  THEN [name |-> name,
        type |-> attribute_type_to_json(type),
        isNullable |-> is_nullable,
        description |-> description]
  ELSE [name |-> name,
        type |-> attribute_type_to_json(type),
        isNullable |-> is_nullable]

\* _create raising AttributeExists with the collection URL
_create_exists_collection(st, fault, dataset, name, is_nullable, type, description) ==
  LET attrs_url == replace(dataset.url, dataset.url.path \o "/attributes")
      url == replace(attrs_url, attrs_url.path \o "/" \o name)
      body == CreateBody(name, is_nullable, type, description)
      s == session_post(st, fault, Str(attrs_url), body)
      rq == <<Request("POST", Str(attrs_url), body, s.r)>>
  IN  IF s.r.status_code = 409
      THEN Done(Raise("AttributeExists", Str(attrs_url)), rq, s.store)
      ELSE IF ~successful(s.r)
           THEN Done(HTTPError(s.r), rq, s.store)
           ELSE Done(Return(<<_from_json(url, s.r.json)>>), rq, s.store)

\* _create deserializing the response under the collection URL
_create_returns_collection(st, fault, dataset, name, is_nullable, type, description) ==
  LET attrs_url == replace(dataset.url, dataset.url.path \o "/attributes")
      url == replace(attrs_url, attrs_url.path \o "/" \o name)
      body == CreateBody(name, is_nullable, type, description)
      s == session_post(st, fault, Str(attrs_url), body)
      rq == <<Request("POST", Str(attrs_url), body, s.r)>>
  IN  IF s.r.status_code = 409
      THEN Done(Raise("AttributeExists", Str(url)), rq, s.store)
      ELSE IF ~successful(s.r)
           THEN Done(HTTPError(s.r), rq, s.store)
           ELSE Done(Return(<<_from_json(attrs_url, s.r.json)>>), rq, s.store)

_create(st, fault, dataset, name, is_nullable, type, description) ==
  LET attrs_url == replace(dataset.url, dataset.url.path \o "/attributes")
      url == replace(attrs_url, attrs_url.path \o "/" \o name)
      body == CreateBody(name, is_nullable, type, description)
      s == session_post(st, fault, Str(attrs_url), body)
      rq == <<Request("POST", Str(attrs_url), body, s.r)>>
  IN  IF s.r.status_code = 409
      THEN Done(Raise("AttributeExists", Str(url)), rq, s.store)
      ELSE IF ~successful(s.r)
           THEN Done(HTTPError(s.r), rq, s.store)
           ELSE Done(Return(<<_from_json(url, s.r.json)>>), rq, s.store)

\* create whose reserved set lacks its last entry
create_short_set(st, fault, dataset, name, is_nullable, type, description) ==
  IF name \in _RESERVED_NAMES \ {"verifiedClusterId"}
  THEN Done(Raise("ReservedAttributeName", name), <<>>, st)
  ELSE _create(st, fault, dataset, name, is_nullable, type, description)

create(st, fault, dataset, name, is_nullable, type, description) ==
  IF name \in _RESERVED_NAMES
  THEN Done(Raise("ReservedAttributeName", name), <<>>, st)
  ELSE _create(st, fault, dataset, name, is_nullable, type, description)

\* update rebuilding the URL from the response's name, as from_dataset_all does
update_rebuilt_url(st, fault, attribute, description) ==
  LET updates == [description |-> description]
      s == session_put(st, fault, Str(attribute.url), updates)
      rq == <<Request("PUT", Str(attribute.url), updates, s.r)>>
  IN  IF s.r.status_code = 404
      THEN Done(Raise("AttributeNotFound", Str(attribute.url)), rq, s.store)
      ELSE IF ~successful(s.r)
           THEN Done(HTTPError(s.r), rq, s.store)
           ELSE Done(Return(<<_from_json(replace(attribute.url,
                                                 attribute.url.path \o "/" \o s.r.json.name),
                                         s.r.json)>>),
                     rq, s.store)

update(st, fault, attribute, description) ==
  LET updates == [description |-> description]
      s == session_put(st, fault, Str(attribute.url), updates)
      rq == <<Request("PUT", Str(attribute.url), updates, s.r)>>
  IN  IF s.r.status_code = 404
      THEN Done(Raise("AttributeNotFound", Str(attribute.url)), rq, s.store)
      ELSE IF ~successful(s.r)
           THEN Done(HTTPError(s.r), rq, s.store)
           ELSE Done(Return(<<_from_json(attribute.url, s.r.json)>>), rq, s.store)

\* delete treating a 404 as success
delete_idempotent(st, fault, attribute) ==
  LET s == session_delete(st, fault, Str(attribute.url))
      rq == <<Request("DELETE", Str(attribute.url), NoBody, s.r)>>
  IN  IF s.r.status_code = 404
      THEN Done(Return(<<>>), rq, s.store)
      ELSE IF ~successful(s.r)
           THEN Done(HTTPError(s.r), rq, s.store)
           ELSE Done(Return(<<>>), rq, s.store)

delete(st, fault, attribute) ==
  LET s == session_delete(st, fault, Str(attribute.url))
      rq == <<Request("DELETE", Str(attribute.url), NoBody, s.r)>>
  IN  IF s.r.status_code = 404
      THEN Done(Raise("AttributeNotFound", Str(attribute.url)), rq, s.store)
      ELSE IF ~successful(s.r)
           THEN Done(HTTPError(s.r), rq, s.store)
           ELSE Done(Return(<<>>), rq, s.store)

-----------------------------------------------------------------------------
(* The caller: one operation per step.  The server may answer any request *)
(* with a 500 (fault); the caller may bind a returned Attribute to handle  *)
(* (keep) or drop it.                                                      *)

CreateNames == UserNames \cup _RESERVED_NAMES

\* (type, is_nullable) pairs passed to create; DEFAULT is also what omitting
\* the type argument gives
CreateProfiles ==
  { [type |-> [tag |-> "STRING"], is_nullable |-> TRUE],
    [type |-> DEFAULT, is_nullable |-> FALSE] }

\* descriptions passed to create and update
CallDescriptions == {None, Some("d")}

NoOp == [op |-> "none", args |-> [none |-> TRUE], out |-> Return(<<>>)]

\* what is remembered of the operation before the last one: a create or a
\* delete that returned
Summary(r) ==
  IF r.op \in {"create", "delete"} /\ r.out.kind = "return" THEN r ELSE NoOp

Step(op, args, o, keep) ==
  /\ store' = o.store
  /\ reqs' = o.reqs
  /\ res' = [op |-> op, args |-> args, out |-> o.out]
  /\ prev' = Summary(res)
  /\ handle' = IF keep >= 1 /\ keep <= Len(o.out.value)
               THEN <<o.out.value[keep]>>
               ELSE handle
  /\ UNCHANGED cval

FromResourceId ==
  \E d \in Datasets, id \in Ids, fault \in BOOLEAN :
    LET o == from_resource_id(store, fault, d, id)
    IN  \E keep \in 0..Len(o.out.value) :
          Step("from_resource_id", [dataset |-> d, id |-> id], o, keep)

FromDatasetAll ==
  \E d \in Datasets, fault \in BOOLEAN :
    LET o == from_dataset_all(store, fault, d)
    IN  \E keep \in 0..Len(o.out.value) :
          Step("from_dataset_all", [dataset |-> d], o, keep)

Create ==
  \E d \in Datasets, name \in CreateNames, p \in CreateProfiles,
     description \in CallDescriptions, fault \in BOOLEAN :
    LET o == create(store, fault, d, name, p.is_nullable, p.type, description)
    IN  \E keep \in 0..Len(o.out.value) :
          Step("create", [dataset |-> d, name |-> name], o, keep)

Update ==
  /\ handle # <<>>
  /\ \E description \in CallDescriptions, fault \in BOOLEAN :
       LET o == update(store, fault, handle[1], description)
       IN  \E keep \in 0..Len(o.out.value) :
             Step("update",
                  [attribute |-> handle[1], description |-> description], o, keep)

Delete ==
  /\ handle # <<>>
  /\ \E fault \in BOOLEAN :
       Step("delete", [attribute |-> handle[1]],
            delete(store, fault, handle[1]), 0)

Init ==
  /\ store = <<>>
  /\ handle = <<>>
  /\ res = NoOp
  /\ prev = NoOp
  /\ reqs = <<>>
  /\ cval = <<>>

Next == FromResourceId \/ FromDatasetAll \/ Create \/ Update \/ Delete

Spec == Init /\ [][Next]_vars

-----------------------------------------------------------------------------
(* The codec on its own: an Attribute or a JSON object is drawn, then      *)
(* to_json and _from_json are applied to it in turn.                       *)

ItemURLs ==
  { replace(d.url, d.url.path \o "/attributes/" \o id) : d \in Datasets, id \in Ids }

AttributesIn ==
  { Attribute(u, n, t, b, <<>>, desc) :
      u \in ItemURLs, n \in UserNames, t \in AttributeTypes,
      b \in BOOLEAN, desc \in Descriptions }

\* JSON objects of the wire format; description may be missing, null or a string
JsonIn ==
  LET base == [name : UserNames,
               type : {attribute_type_to_json(t) : t \in AttributeTypes},
               isNullable : BOOLEAN]
  IN  base \cup
      { [name |-> j.name, type |-> j.type, isNullable |-> j.isNullable,
         description |-> desc] : j \in base, desc \in Descriptions }

AttrVal(a) == [kind |-> "attr", v |-> a]

JsonVal(j) == [kind |-> "json", v |-> j]

ToJson ==
  /\ cval # <<>>
  /\ Len(cval) < 3
  /\ cval[Len(cval)].kind = "attr"
  /\ cval' = Append(cval, JsonVal(to_json(cval[Len(cval)].v)))
  /\ UNCHANGED <<store, handle, res, prev, reqs>>

FromJson ==
  /\ cval # <<>>
  /\ Len(cval) < 3
  /\ cval[Len(cval)].kind = "json"
  /\ \E u \in ItemURLs :
       cval' = Append(cval, AttrVal(_from_json(u, cval[Len(cval)].v)))
  /\ UNCHANGED <<store, handle, res, prev, reqs>>

InitCodec ==
  /\ store = <<>>
  /\ handle = <<>>
  /\ res = NoOp
  /\ prev = NoOp
  /\ reqs = <<>>
  /\ cval \in {<<AttrVal(a)>> : a \in AttributesIn} \cup {<<JsonVal(j)>> : j \in JsonIn}

NextCodec == ToJson \/ FromJson

SpecCodec == InitCodec /\ [][NextCodec]_vars

-----------------------------------------------------------------------------
(* Properties *)

Returned == res.out.kind = "return"

\* the status code of the answer to the last operation's (first) request
Status == reqs[1].response.status_code

\* the item URL string dataset URL + "/attributes/" + id
ExpectedItemUrl(d, id) == Str(d.url) \o "/attributes/" \o id

\* C1: create with a reserved name raises ReservedAttributeName carrying the
\* name and issues no HTTP request, whatever the other arguments are.
C1_ReservedNameRejected ==
  (res.op = "create" /\ res.args.name \in _RESERVED_NAMES)
    => /\ res.out = Raise("ReservedAttributeName", res.args.name)
       /\ reqs = <<>>

C1_Witness ==
  /\ res.op = "create"
  /\ res.args.name = "verifiedClusterId"
  /\ res.out.exc = "ReservedAttributeName"
  /\ store # <<>>

\* C2: a 409 answer to the create POST raises AttributeExists carrying the
\* prospective item URL, and no Attribute is returned.
C2_ConflictCarriesItemUrl ==
  (res.op = "create" /\ reqs # <<>> /\ Status = 409)
    => /\ res.out.kind = "raise"
       /\ res.out.exc = "AttributeExists"
       /\ res.out.arg = ExpectedItemUrl(res.args.dataset, res.args.name)
       /\ res.out.value = <<>>

C2_Witness ==
  /\ res.op = "create"
  /\ reqs # <<>>
  /\ Status = 409
  /\ res.out.arg = Origin \o "/datasets/7/attributes/a"

\* C3: a 404 answer to fetch-by-id, update or delete raises AttributeNotFound
\* carrying the URL the request went to; for fetch-by-id that URL is
\* dataset URL + "/attributes/" + id (/datasets/7 and "foo" give
\* /datasets/7/attributes/foo).
C3_NotFoundCarriesUrl ==
  (res.op \in {"from_resource_id", "update", "delete"} /\ Status = 404)
    => /\ res.out.kind = "raise"
       /\ res.out.exc = "AttributeNotFound"
       /\ res.out.arg = reqs[1].url
       /\ res.out.value = <<>>
       /\ res.op = "from_resource_id"
            => res.out.arg = ExpectedItemUrl(res.args.dataset, res.args.id)
       /\ (res.op = "from_resource_id" /\ res.args.id = "foo"
             /\ res.args.dataset.url.path = "/datasets/7")
            => res.out.arg = Origin \o "/datasets/7/attributes/foo"
       /\ res.op \in {"update", "delete"}
            => res.out.arg = Str(res.args.attribute.url)

C3_Witness ==
  /\ res.op = "update"
  /\ Status = 404
  /\ res.out.exc = "AttributeNotFound"

\* C4: a create that returned, followed by fetch-by-id with the same dataset
\* and id = the created name, returns an Attribute equal (url, name, type,
\* is_nullable, description; not the raw payload) to the one create returned.
C4_CreateThenFetchEqual ==
  (/\ prev.op = "create"
   /\ res.op = "from_resource_id"
   /\ res.args.dataset = prev.args.dataset
   /\ res.args.id = prev.args.name
   /\ Status < 500)
    => /\ Returned
       /\ AttributeEq(res.out.value[1], prev.out.value[1])

C4_Witness ==
  /\ prev.op = "create"
  /\ res.op = "from_resource_id"
  /\ res.args.id = prev.args.name
  /\ Returned
  /\ res.out.value[1].description = Some("d")

\* the input and the result of an update that returned
UpdIn == res.args.attribute

UpdOut == res.out.value[1]

\* the input attribute still describes the resource the server holds at its URL
UpdInCurrent ==
  \E i \in Find(store, Str(UpdIn.url)) :
    /\ store[i].json.name = UpdIn.name
    /\ attribute_type_from_json(store[i].json.type) = UpdIn.type
    /\ store[i].json.isNullable = UpdIn.is_nullable

\* C5 as stated: an update that returns gives an Attribute whose name, type,
\* is_nullable and url are those of the input attribute.
C5_UpdateChangesOnlyDescription ==
  (res.op = "update" /\ Returned)
    => /\ UpdOut.url = UpdIn.url
       /\ UpdOut.name = UpdIn.name
       /\ UpdOut.type = UpdIn.type
       /\ UpdOut.is_nullable = UpdIn.is_nullable

\* C5 amended: an update that returns sends only the description, gives a new
\* Attribute with the input's url whose other fields are read from the
\* server's response body, so name, type and is_nullable are the input's
\* whenever the input still describes the resource at that url; the caller's
\* input value is left as it was.
C5_UpdateKeepsUrlAndServerFields ==
  (res.op = "update" /\ Returned)
    => /\ reqs[1].verb = "PUT"
       /\ reqs[1].url = Str(UpdIn.url)
       /\ reqs[1].json = [description |-> res.args.description]
       /\ UpdOut.url = UpdIn.url
       /\ UpdOut.name = reqs[1].response.json.name
       /\ UpdOut.type = attribute_type_from_json(reqs[1].response.json.type)
       /\ UpdOut.is_nullable = reqs[1].response.json.isNullable
       /\ UpdOut.description = get_description(reqs[1].response.json)
       /\ UpdInCurrent
            => /\ UpdOut.name = UpdIn.name
               /\ UpdOut.type = UpdIn.type
               /\ UpdOut.is_nullable = UpdIn.is_nullable
       /\ handle = <<UpdIn>> \/ handle = <<UpdOut>>

C5_Witness ==
  /\ res.op = "update"
  /\ Returned
  /\ UpdInCurrent
  /\ UpdOut.description # UpdIn.description
  /\ handle = <<UpdIn>>

\* C6: after a delete that returned (with no value), a second delete of the
\* same URL never returns: it raises AttributeNotFound for that URL (or the
\* generic HTTP error when the server answers 5xx).
C6_SecondDeleteNotFound ==
  (/\ prev.op = "delete"
   /\ res.op = "delete"
   /\ res.args.attribute.url = prev.args.attribute.url)
    => /\ prev.out = Return(<<>>)
       /\ res.out.kind = "raise"
       /\ Status < 500
            => res.out = Raise("AttributeNotFound", Str(res.args.attribute.url))

C6_Witness ==
  /\ prev.op = "delete"
  /\ res.op = "delete"
  /\ res.args.attribute.url = prev.args.attribute.url
  /\ res.out.exc = "AttributeNotFound"

\* C9: fetch-all returns one Attribute per element of the collection response,
\* in the response's order, the i-th with url collection URL + "/" + the i-th
\* element's name.
C9_FetchAllOrderedUrls ==
  (res.op = "from_dataset_all" /\ Returned)
    => LET body == reqs[1].response.json
           coll == replace(res.args.dataset.url,
                           res.args.dataset.url.path \o "/attributes")
       IN  /\ reqs[1].url = Str(coll)
           /\ Len(res.out.value) = Len(body)
           /\ \A i \in 1..Len(body) :
                /\ res.out.value[i].url = replace(coll, coll.path \o "/" \o body[i].name)
                /\ res.out.value[i].name = body[i].name
                /\ res.out.value[i]._json = body[i]

C9_Witness ==
  /\ res.op = "from_dataset_all"
  /\ Returned
  /\ Len(res.out.value) = 2
  /\ res.out.value[1].url.path = "/datasets/7/attributes/a"
  /\ res.out.value[2].url.path = "/datasets/7/attributes/b"

\* C10 as stated: every operation issues exactly one HTTP request.
C10_ExactlyOneRequest ==
  res.op # "none" => Len(reqs) = 1

\* C10 amended: every operation issues exactly one HTTP request, whatever the
\* answer's status, except create with a reserved name, which issues none.
C10_OneRequestUnlessReserved ==
  res.op # "none"
    => Len(reqs) = IF res.op = "create" /\ res.args.name \in _RESERVED_NAMES
                   THEN 0 ELSE 1

C10_Witness ==
  /\ res.op = "from_resource_id"
  /\ Len(reqs) = 1
  /\ Status = 500
  /\ res.out.exc = "HTTPError"

\* the semantic fields of an Attribute: all but url and the raw payload
Semantic(a) ==
  [name |-> a.name, type |-> a.type, is_nullable |-> a.is_nullable,
   description |-> a.description]

\* C7: to_json then _from_json, under any url, reproduces name, type,
\* is_nullable and description.
C7_RoundTrip ==
  (Len(cval) = 3 /\ cval[1].kind = "attr")
    => Semantic(cval[3].v) = Semantic(cval[1].v)

C7_Witness ==
  /\ Len(cval) = 3
  /\ cval[1].kind = "attr"
  /\ cval[1].v.description = None
  /\ cval[3].v.url # cval[1].v.url
  /\ "inner_type" \in DOMAIN cval[3].v.type

====
